---- MODULE Spec2Model ----
(***************************************************************************)
(* State-machine model of src/src/contexts/AuthContext.jsx (AuthProvider): *)
(* the React state of the provider, the two localStorage slots, the        *)
(* WebSockets created by the channel effect, and the HTTP requests in      *)
(* flight.                                                                 *)
(*                                                                         *)
(* Scheduling model (React 18, automatic batching): every callback         *)
(* (event handler, promise continuation, socket event) runs to completion  *)
(* and all its setState calls are committed in one render.  Passive        *)
(* effects of a commit run later, in a task of their own (FlushEffects);   *)
(* if another callback runs first, the callback's body sees the closures   *)
(* of the last flushed render, React flushes the pending effects before    *)
(* it renders the callback's updates, and then commits them.               *)
(***************************************************************************)
EXTENDS Integers, Sequences, FiniteSets, TLC

\* ----------------------------------------------------------------- bounds
\* Longest mirror a 'created' notification may extend.
MaxLen == 2
\* WebSockets that may exist at once and are not yet closed.
MaxSockets == 2
\* Requests of one kind (login, bulk fetch, command) in flight at once.
MaxInFlight == 1

\* ------------------------------------------------------------ value space
NullUser == [isNull |-> TRUE]      \* JS null for the `user` state
NullToken == "null"                \* JS null for the `token` state
NoSocket == 0                      \* JS null for the `ws` state
Absent == <<"absent">>             \* localStorage.getItem(k) === null

UserIds == {1, 2}
SessionIds == {1, 2}
Tokens == {"t1"}

\* User records the server may send: two versions of user 1 (the second
\* lacks the email field of the first) and one of user 2.
UserRecords ==
    { [id |-> 1, username |-> "ann", email |-> "a@x"],
      [id |-> 1, username |-> "anna"],
      [id |-> 2, username |-> "bob"] }

\* Session records as the server creates them.
SessionRecords ==
    { [id |-> i, title |-> "intro", status |-> "scheduled", updated_at |-> 1]
        : i \in SessionIds }

\* Collections the server may return from GET /users/ and GET /sessions/
\* (duplicate-free: the server's collections are keyed by id).
ServerUserLists ==
    { <<>> } \cup { <<u>> : u \in UserRecords }
      \cup { <<u, v>> : u \in {r \in UserRecords : r.id = 1},
                        v \in {r \in UserRecords : r.id = 2} }
ServerSessionLists ==
    { <<>> } \cup { <<s>> : s \in SessionRecords }

\* Notification envelopes (the parsed JSON of event.data), well-formed per
\* the backend's contract, plus one with an unknown discriminant.
Messages ==
    { [type |-> "user_created", data |-> [user |-> u]] : u \in UserRecords }
    \cup { [type |-> "user_updated", data |-> [user_id |-> u.id, user |-> u]]
             : u \in UserRecords }
    \cup { [type |-> "user_deleted", data |-> [user_id |-> i]] : i \in UserIds }
    \cup { [type |-> "session_created", data |-> s] : s \in SessionRecords }
    \cup { [type |-> "session_updated",
            data |-> [session_id |-> i, status |-> "completed", updated_at |-> 2]]
             : i \in SessionIds }
    \cup { [type |-> "session_deleted", data |-> [session_id |-> i]]
             : i \in SessionIds }
    \cup { [type |-> "ping", data |-> [session_id |-> 1]] }

CommandOps ==
    { "createUser", "updateUserById", "deleteUser",
      "createSession", "updateSession", "deleteSession" }

\* ------------------------------------------------------- pure operations
\* JSON.stringify / JSON.parse of the principal (lines 137, 116): the stored
\* string is a different value from the object it encodes.
Stringify(u) == <<"json", u>>
Parses(s) == s[1] = "json"
Parse(s) == s[2]

Truthy(tok) == tok # NullToken

Ids(s) == { s[i].id : i \in 1..Len(s) }
CountId(s, id) == Cardinality({ i \in 1..Len(s) : s[i].id = id })

\* Record spread {...old, ...patch} (line 70).
Spread(old, patch) ==
    [k \in DOMAIN old \cup DOMAIN patch |->
        IF k \in DOMAIN patch THEN patch[k] ELSE old[k]]

\* The identifier a notification is about.
TargetId(m) ==
    CASE m.type = "user_created" -> m.data.user.id
      [] m.type \in {"user_updated", "user_deleted"} -> m.data.user_id
      [] m.type = "session_created" -> m.data.id
      [] m.type \in {"session_updated", "session_deleted"} -> m.data.session_id
      [] OTHER -> 0

IsUserMsg(m) == m.type \in {"user_created", "user_updated", "user_deleted"}
IsSessionMsg(m) ==
    m.type \in {"session_created", "session_updated", "session_deleted"}

\* An 'updated' handler that merges the payload into the old entry.
UsersAfterMerging(prev, m) ==
    CASE m.type = "user_created" -> Append(prev, m.data.user)
      [] m.type = "user_updated" ->
           [i \in 1..Len(prev) |->
              IF prev[i].id = m.data.user_id
                THEN Spread(prev[i], m.data.user) ELSE prev[i]]
      [] m.type = "user_deleted" ->
           SelectSeq(prev, LAMBDA u : u.id # m.data.user_id)
      [] OTHER -> prev

\* The setUsers updaters of handleWsMessage (lines 49, 52, 58).
UsersAfter(prev, m) ==
    CASE m.type = "user_created" -> Append(prev, m.data.user)
      [] m.type = "user_updated" ->
           [i \in 1..Len(prev) |->
              IF prev[i].id = m.data.user_id THEN m.data.user ELSE prev[i]]
      [] m.type = "user_deleted" ->
           SelectSeq(prev, LAMBDA u : u.id # m.data.user_id)
      [] OTHER -> prev

\* A handler whose session_created case leaves the mirror as it is.
SessionsAfterDroppingCreated(prev, m) ==
    CASE m.type = "session_updated" ->
           [i \in 1..Len(prev) |->
              IF prev[i].id = m.data.session_id
                THEN Spread(prev[i], [status |-> m.data.status,
                                      updated_at |-> m.data.updated_at])
                ELSE prev[i]]
      [] m.type = "session_deleted" ->
           SelectSeq(prev, LAMBDA x : x.id # m.data.session_id)
      [] OTHER -> prev

\* A 'deleted' handler written as splice(findIndex(...), 1): findIndex gives
\* -1 for an absent id and splice(-1, 1) then removes the last entry.
SessionsAfterSplicing(prev, m) ==
    CASE m.type = "session_created" -> Append(prev, m.data)
      [] m.type = "session_updated" ->
           [i \in 1..Len(prev) |->
              IF prev[i].id = m.data.session_id
                THEN Spread(prev[i], [status |-> m.data.status,
                                      updated_at |-> m.data.updated_at])
                ELSE prev[i]]
      [] m.type = "session_deleted" ->
           IF m.data.session_id \in Ids(prev)
             THEN SelectSeq(prev, LAMBDA x : x.id # m.data.session_id)
             ELSE SubSeq(prev, 1, Len(prev) - 1)
      [] OTHER -> prev

\* The setSessions updaters of handleWsMessage (lines 67, 70, 73).
SessionsAfter(prev, m) ==
    CASE m.type = "session_created" -> Append(prev, m.data)
      [] m.type = "session_updated" ->
           [i \in 1..Len(prev) |->
              IF prev[i].id = m.data.session_id
                THEN Spread(prev[i], [status |-> m.data.status,
                                      updated_at |-> m.data.updated_at])
                ELSE prev[i]]
      [] m.type = "session_deleted" ->
           SelectSeq(prev, LAMBDA x : x.id # m.data.session_id)
      [] OTHER -> prev

\* `user && user.id === message.data.user_id` (lines 53, 59), on the `user`
\* the handler closed over.
IsSelf(closureUser, m) ==
    /\ closureUser # NullUser
    /\ closureUser.id = m.data.user_id

\* ------------------------------------------------------------------ state
VARIABLES
    phase,      \* "mount" before the mount effects ran, then "ready";
                \* "crashed" when an effect threw and React unmounted the tree
    loading,    \* useState(true), line 13
    user,       \* useState(null), line 9
    token,      \* useState(null), line 14
    users,      \* useState([]), line 10
    sessions,   \* useState([]), line 11
    ws,         \* useState(null), line 15: index into sockets, or NoSocket
    lsUser,     \* localStorage slot 'user'
    lsToken,    \* localStorage slot 'token'
    sockets,    \* the WebSockets the provider created, by slot: [state, user],
                \* user being the `user` its onmessage handler closed over.
                \* A closed socket is garbage and its slot is reused; a
                \* socket that is closing or closed never calls its handler
                \* again, so its closure is dropped (NullUser)
    effSock,    \* the `socket` the channel effect's pending cleanup closes
    dirty,      \* which effects the last commit scheduled: [ws, fetch]
    loginReqs,  \* POST /auth/login requests in flight
    fetchReqs,  \* fetchInitialData calls awaiting their responses
    cmdReqs,    \* Command Gateway requests in flight: [op, token]
    opened,     \* `new WebSocket` calls (line 87) since the credential was
                \* last acquired or lost: 0, 1, or 2 for "more than one"
    last,       \* the callback that ran last, and what it returned
    server,     \* the backend's session collection: [ids, assigned], the
                \* ids it holds and how many it has assigned so far
    queue,      \* per socket, the notifications the backend has broadcast
                \* to it that have not reached onmessage yet
    snap,       \* the backend's answer to the bulk fetch in flight, once
                \* it has read its collection: [taken, ids]
    created     \* the session created for a createSession call:
                \* [id, returned, echoed]

vars ==
    << phase, loading, user, token, users, sessions, ws, lsUser, lsToken,
       sockets, effSock, dirty, loginReqs, fetchReqs, cmdReqs, opened,
       last, server, queue, snap, created >>

\* The provider's own state, and the backend's.
client ==
    << phase, loading, user, token, users, sessions, ws, lsUser, lsToken,
       sockets, effSock, dirty, loginReqs, fetchReqs, cmdReqs, opened >>
srv == << server, queue, snap, created >>

NoSnap == [taken |-> FALSE, ids |-> {}]
NotCreated == [id |-> 0, returned |-> FALSE, echoed |-> FALSE]

Clean == [ws |-> FALSE, fetch |-> FALSE]
Other == [op |-> "other"]

\* Principals POST /auth/login may return.
LoginUsers == { u \in UserRecords : "email" \in DOMAIN u \/ u.id = 2 }

\* What the two slots may hold when the page loads.
StoredUsers ==
    { Absent, <<"raw", "{oops">> } \cup { Stringify(u) : u \in LoginUsers }
\* localStorage.setItem('token', t) (line 138): the slot holds the string.
Slot(t) == <<"str", t>>
StoredTokens == { Absent } \cup { Slot(t) : t \in Tokens }

Dead(st) == [state |-> st, user |-> NullUser]

Init ==
    /\ phase = "mount"
    /\ loading = TRUE
    /\ user = NullUser
    /\ token = NullToken
    /\ users = <<>>
    /\ sessions = <<>>
    /\ ws = NoSocket
    /\ lsUser \in StoredUsers
    /\ lsToken \in StoredTokens
    /\ sockets = [i \in 1..MaxSockets |-> Dead("CLOSED")]
    /\ effSock = NoSocket
    /\ dirty = Clean
    /\ loginReqs = 0
    /\ fetchReqs = 0
    /\ cmdReqs = <<>>
    /\ opened = 0
    /\ last = Other
    /\ server = [ids |-> {}, assigned |-> 0]
    /\ queue = [i \in 1..MaxSockets |-> <<>>]
    /\ snap = NoSnap
    /\ created = NotCreated

\* --------------------------------------------------------------- effects
\* socket.close() (lines 102, 155): a connecting or open socket starts its
\* closing handshake; closing an already closing or closed one does nothing.
CloseSocketIgnored(socks, i) == socks

CloseSocket(socks, i) ==
    IF i # NoSocket /\ socks[i].state \in {"CONNECTING", "OPEN"}
      THEN [socks EXCEPT ![i] = Dead("CLOSING")]
      ELSE socks

\* The socket of the effect's last run went to CLOSED without the cleanup:
\* the remote end closed it or the transport failed (lines 92-97).
Lost == effSock # NoSocket /\ sockets[effSock].state = "CLOSED"

\* A channel effect that also reconnects once its socket is found closed.
OpensChannelOrLost == Truthy(token) /\ (dirty.ws \/ Lost)

\* The channel effect (lines 84-104) when its deps [token, handleWsMessage]
\* changed: the previous run's cleanup, then the body.
OpensChannel == dirty.ws /\ Truthy(token)

\* The slot `new WebSocket(WS_URL)` (line 87) takes: the first free one.
NewSlot ==
    CHOOSE i \in 1..MaxSockets :
        /\ sockets[i].state = "CLOSED"
        /\ \A j \in 1..(i - 1) : sockets[j].state # "CLOSED"

\* A channel effect that returns no cleanup.
FlushSocketsLeaking(socks) ==
    IF OpensChannel
      THEN [socks EXCEPT ![NewSlot] = [state |-> "CONNECTING", user |-> user]]
      ELSE socks

FlushSockets(socks) ==
    LET cleaned == IF dirty.ws THEN CloseSocket(socks, effSock) ELSE socks
    IN  IF OpensChannel
          THEN [cleaned EXCEPT ![NewSlot] = [state |-> "CONNECTING", user |-> user]]
          ELSE cleaned

FlushEffSock ==
    IF dirty.ws
      THEN (IF Truthy(token) THEN NewSlot ELSE NoSocket)
      ELSE effSock

\* setWs(socket), line 99.
FlushWs(cur) == IF OpensChannel THEN NewSlot ELSE cur

\* The initial-data effect (lines 107-109, 24-30) when fetchInitialData
\* changed: a request pair is issued if a token is held.
FlushFetch == IF dirty.fetch /\ Truthy(token) THEN fetchReqs + 1 ELSE fetchReqs

\* The sockets created so far in this session, after the pending effects.
FlushOpened == IF OpensChannel /\ opened < 2 THEN opened + 1 ELSE opened

\* Pending effects can run only while the model has room for what they
\* create: a free socket slot, and a fetch below MaxInFlight.
Bounded ==
    /\ OpensChannel => \E i \in 1..MaxSockets : sockets[i].state = "CLOSED"
    /\ (dirty.fetch /\ Truthy(token)) => fetchReqs < MaxInFlight

\* Passive effects of the last commit run in their own task.
FlushEffects ==
    /\ phase = "ready"
    /\ dirty # Clean
    /\ Bounded
    /\ sockets' = FlushSockets(sockets)
    /\ effSock' = FlushEffSock
    /\ ws' = FlushWs(ws)
    /\ fetchReqs' = FlushFetch
    /\ opened' = FlushOpened
    /\ dirty' = Clean
    /\ last' = [op |-> "effects",
                closed |-> dirty.ws /\ CloseSocket(sockets, effSock) # sockets]
    /\ UNCHANGED << phase, loading, user, token, users, sessions, lsUser,
                    lsToken, loginReqs, cmdReqs >>

\* Mount: the three effects run in source order with the initial state.  The
\* channel effect and the initial-data effect return at once (token is
\* null); the restore effect (lines 112-120) reads the two slots.
Mount ==
    /\ phase = "mount"
    /\ IF lsUser # Absent /\ lsToken # Absent
         THEN IF Parses(lsUser)
                THEN /\ user' = Parse(lsUser)
                     /\ token' = lsToken[2]
                     /\ loading' = FALSE
                     /\ dirty' = [ws |-> TRUE, fetch |-> TRUE]
                     /\ phase' = "ready"
                ELSE \* JSON.parse throws out of the effect
                     /\ phase' = "crashed"
                     /\ UNCHANGED << user, token, loading, dirty >>
         ELSE /\ loading' = FALSE
              /\ phase' = "ready"
              /\ UNCHANGED << user, token, dirty >>
    /\ last' = [op |-> "restore"]
    /\ UNCHANGED << users, sessions, ws, lsUser, lsToken, sockets, effSock,
                    loginReqs, fetchReqs, cmdReqs, opened >>

\* ----------------------------------------------------------------- login
\* What POST /auth/login may answer: 200 with {user, access_token}, a non-2xx
\* status whose body has a detail or not, or a transport failure.
LoginOutcomes ==
    { [kind |-> "ok", user |-> u, token |-> t] : u \in LoginUsers, t \in Tokens }
    \cup { [kind |-> "rejected", detail |-> d] : d \in {"Incorrect password", ""} }
    \cup { [kind |-> "network"] }

\* The value login returns (lines 132, 139, 142).
LoginResult(o) ==
    CASE o.kind = "ok" -> [success |-> TRUE]
      [] o.kind = "rejected" ->
           [success |-> FALSE,
            error |-> IF o.detail # "" THEN o.detail ELSE "Login failed"]
      [] OTHER -> [success |-> FALSE, error |-> "Login error"]

\* login up to its await (lines 123-129).
LoginRequest ==
    /\ phase = "ready"
    /\ loginReqs < MaxInFlight
    /\ loginReqs' = loginReqs + 1
    /\ last' = Other
    /\ UNCHANGED << phase, loading, user, token, users, sessions, ws, lsUser,
                    lsToken, sockets, effSock, dirty, fetchReqs, cmdReqs,
                    opened >>

\* login after its await (lines 130-143).
LoginResponse(o) ==
    /\ phase = "ready"
    /\ loginReqs > 0
    /\ loginReqs' = loginReqs - 1
    /\ last' = [op |-> IF o.kind = "ok" THEN "login" ELSE "loginFailed",
                result |-> LoginResult(o)]
    /\ IF o.kind = "ok"
         THEN /\ Bounded
              /\ user' = o.user
              /\ token' = o.token
              /\ lsUser' = Stringify(o.user)
              /\ lsToken' = Slot(o.token)
              /\ sockets' = FlushSockets(sockets)
              /\ effSock' = FlushEffSock
              /\ ws' = FlushWs(ws)
              /\ fetchReqs' = FlushFetch
              /\ opened' = 0
              /\ dirty' = [ws |-> TRUE, fetch |-> o.token # token]
         ELSE UNCHANGED << user, token, lsUser, lsToken, sockets, effSock, ws,
                           fetchReqs, opened, dirty >>
    /\ UNCHANGED << phase, loading, users, sessions, cmdReqs >>

\* A logout that forgets to reset the mirrors.
KeptMirror(prev) == prev

\* setUsers([]) and setSessions([]) (lines 150-151).
ClearedMirror(prev) == <<>>

\* logout (lines 147-158), called from a click handler.  `ws` is the socket
\* of the last render.  React runs the pending effects before it renders
\* the logout's updates (so a setWs(socket) they queue lands after logout's
\* setWs(null)), and an update made in a discrete event is rendered
\* synchronously together with its own effects: with the token now null the
\* channel effect only runs its cleanup, and the initial-data effect returns.
Logout ==
    LET pending == FlushSockets(CloseSocket(sockets, ws))
        changed == user # NullUser \/ token # NullToken
    IN
    /\ phase = "ready"
    /\ Bounded
    /\ user' = NullUser
    /\ token' = NullToken
    /\ users' = ClearedMirror(users)
    /\ sessions' = ClearedMirror(sessions)
    /\ lsUser' = Absent
    /\ lsToken' = Absent
    /\ sockets' = IF changed THEN CloseSocket(pending, FlushEffSock) ELSE pending
    /\ effSock' = IF changed THEN NoSocket ELSE FlushEffSock
    /\ ws' = FlushWs(NoSocket)
    /\ fetchReqs' = FlushFetch
    /\ opened' = 0
    /\ dirty' = Clean
    /\ last' = [op |-> "logout", prev |-> last.op,
                had |-> users # <<>> /\ sessions # <<>>]
    /\ UNCHANGED << phase, loading, loginReqs, cmdReqs >>

\* --------------------------------------------------------- notifications
\* handleWsMessage (lines 44-81) as socket i's onmessage handler, on the
\* envelope m it parsed.  The updaters see the state being rendered; the
\* credential test sees the `user` the handler closed over.
KnownType(m) == IsUserMsg(m) \/ IsSessionMsg(m)

ForcedLogout(i, m) == m.type = "user_deleted" /\ IsSelf(sockets[i].user, m)
PrincipalUpdate(i, m) == m.type = "user_updated" /\ IsSelf(sockets[i].user, m)

WsMessage(i, m) ==
    /\ phase = "ready"
    /\ sockets[i].state = "OPEN"
    /\ m.type = "user_created" => Len(users) < MaxLen
    /\ m.type = "session_created" => Len(sessions) < MaxLen
    /\ last' = [op |-> "ws", msg |-> m,
                hit |-> \/ IsUserMsg(m) /\ TargetId(m) \in Ids(users)
                        \/ IsSessionMsg(m) /\ TargetId(m) \in Ids(sessions),
                self |-> /\ IsUserMsg(m)
                         /\ user # NullUser
                         /\ user.id = TargetId(m)]
    /\ IF KnownType(m)
         THEN /\ Bounded
              /\ users' = UsersAfter(users, m)
              /\ sessions' = SessionsAfter(sessions, m)
              /\ user' = IF PrincipalUpdate(i, m) THEN m.data.user
                         ELSE IF ForcedLogout(i, m) THEN NullUser
                         ELSE user
              /\ token' = IF ForcedLogout(i, m) THEN NullToken ELSE token
              /\ lsUser' = IF ForcedLogout(i, m) THEN Absent ELSE lsUser
              /\ lsToken' = IF ForcedLogout(i, m) THEN Absent ELSE lsToken
              /\ sockets' = FlushSockets(sockets)
              /\ effSock' = FlushEffSock
              /\ ws' = FlushWs(ws)
              /\ fetchReqs' = FlushFetch
              /\ opened' = IF ForcedLogout(i, m) THEN 0 ELSE FlushOpened
              /\ dirty' = [ws |-> \/ PrincipalUpdate(i, m)
                                  \/ ForcedLogout(i, m)
                                       /\ (user # NullUser \/ token # NullToken),
                           fetch |-> ForcedLogout(i, m) /\ token # NullToken]
         ELSE \* default branch: console.warn only
              UNCHANGED << users, sessions, user, token, lsUser, lsToken,
                           sockets, effSock, ws, fetchReqs, opened, dirty >>
    /\ UNCHANGED << phase, loading, loginReqs, cmdReqs >>

\* The browser's socket events.  onopen, onclose and onerror only log
\* (lines 88-97).
SocketOpen(i) ==
    /\ sockets[i].state = "CONNECTING"
    /\ sockets' = [sockets EXCEPT ![i].state = "OPEN"]
    /\ last' = Other
    /\ UNCHANGED << phase, loading, user, token, users, sessions, ws, lsUser,
                    lsToken, effSock, dirty, loginReqs, fetchReqs, cmdReqs,
                    opened >>

\* Remote close or transport error.
SocketLost(i) ==
    /\ sockets[i].state \in {"CONNECTING", "OPEN"}
    /\ sockets' = [sockets EXCEPT ![i] = Dead("CLOSED")]
    /\ last' = Other
    /\ UNCHANGED << phase, loading, user, token, users, sessions, ws, lsUser,
                    lsToken, effSock, dirty, loginReqs, fetchReqs, cmdReqs,
                    opened >>

\* The closing handshake started by socket.close() completes.
SocketClosed(i) ==
    /\ sockets[i].state = "CLOSING"
    /\ sockets' = [sockets EXCEPT ![i] = Dead("CLOSED")]
    /\ last' = Other
    /\ UNCHANGED << phase, loading, user, token, users, sessions, ws, lsUser,
                    lsToken, effSock, dirty, loginReqs, fetchReqs, cmdReqs,
                    opened >>

\* ---------------------------------------------------------------- frames
\* event.data as the socket hands it over: text that JSON.parse (line 46)
\* rejects, or the serialization of an envelope.  An envelope may lack its
\* `data` member; message.data is then undefined.
Undefined == [undefined |-> TRUE]
InvalidJson == << "raw", "{oops" >>
MessageTypes ==
    { "user_created", "user_updated", "user_deleted",
      "session_created", "session_updated", "session_deleted" }
NoData(t) == [type |-> t]
HasData(m) == "data" \in DOMAIN m
WellFormed(f) == Parses(f) /\ HasData(Parse(f))
Defined(s) == \A k \in 1..Len(s) : s[k] # Undefined

\* No setState call is reached: JSON.parse threw into the catch of line 78,
\* or the switch took its default branch.
Dropped(f) == ~Parses(f) \/ ~KnownType(Parse(f))

\* The updater queued by a case of the switch throws a TypeError when React
\* runs it: it reads a member of the undefined message.data (always on line
\* 49, per visited entry on lines 52, 58, 70, 73), or reads s.id of an
\* undefined entry (lines 70, 73).  Line 67 reads only message.data itself.
UpdaterThrows(m) ==
    CASE m.type = "user_created" -> ~HasData(m)
      [] m.type \in {"user_updated", "user_deleted"} ->
           ~HasData(m) /\ users # <<>>
      [] m.type \in {"session_updated", "session_deleted"} ->
           \/ ~HasData(m) /\ sessions # <<>>
           \/ ~Defined(sessions)
      [] OTHER -> FALSE

\* socket.onmessage on the frame f.  A well-formed envelope is handled as in
\* WsMessage.  Otherwise: a dropped frame changes nothing; an updater that
\* throws does so while the provider renders, which unmounts it (the channel
\* effect's cleanup closes the socket); line 67 appends message.data,
\* undefined or not.
WsFrame(i, f) ==
    /\ sockets[i].state = "OPEN"
    /\ IF WellFormed(f) /\ (Defined(sessions) \/ ~IsSessionMsg(Parse(f)))
         THEN WsMessage(i, Parse(f))
         ELSE /\ phase = "ready"
              /\ last' = [op |-> "frame", frame |-> f]
              /\ IF Dropped(f)
                   THEN UNCHANGED << phase, sessions, sockets, effSock, ws,
                                     fetchReqs, opened, dirty >>
                   ELSE LET m == Parse(f)
                            thrown == UpdaterThrows(m)
                            appended == IF HasData(m) THEN m.data ELSE Undefined
                        IN  /\ Bounded
                            /\ m.type = "session_created" => Len(sessions) < MaxLen
                            /\ phase' = IF thrown THEN "crashed" ELSE phase
                            /\ sessions' =
                                 IF m.type = "session_created"
                                   THEN Append(sessions, appended)
                                   ELSE sessions
                            /\ sockets' =
                                 IF thrown
                                   THEN CloseSocket(FlushSockets(sockets),
                                                    FlushEffSock)
                                   ELSE FlushSockets(sockets)
                            /\ effSock' = IF thrown THEN NoSocket ELSE FlushEffSock
                            /\ ws' = FlushWs(ws)
                            /\ fetchReqs' = FlushFetch
                            /\ opened' = FlushOpened
                            /\ dirty' = Clean
              /\ UNCHANGED << loading, user, token, users, lsUser, lsToken,
                              loginReqs, cmdReqs >>

\* ------------------------------------------------------------ bulk fetch
\* What the request pair of fetchInitialData may end in.
FetchOutcomes ==
    { [kind |-> "ok", users |-> ul, sessions |-> sl]
        : ul \in ServerUserLists, sl \in ServerSessionLists }
    \cup { [kind |-> "failed"] }

\* fetchInitialData after its await (lines 31-40).
FetchResponse(o) ==
    /\ phase = "ready"
    /\ fetchReqs > 0
    /\ last' = Other
    /\ IF o.kind = "ok"
         THEN /\ Bounded
              /\ users' = o.users
              /\ sessions' = o.sessions
              /\ sockets' = FlushSockets(sockets)
              /\ effSock' = FlushEffSock
              /\ ws' = FlushWs(ws)
              /\ fetchReqs' = FlushFetch - 1
              /\ opened' = FlushOpened
              /\ dirty' = Clean
         ELSE /\ fetchReqs' = fetchReqs - 1
              /\ UNCHANGED << users, sessions, sockets, effSock, ws, opened,
                              dirty >>
    /\ UNCHANGED << phase, loading, user, token, lsUser, lsToken, loginReqs,
                    cmdReqs >>

\* ------------------------------------------------------- Command Gateway
\* The value an operation returns when it fails (lines 162, 178, 206, 220).
FailureValue(op) ==
    IF op \in {"deleteUser", "deleteSession"} THEN "false" ELSE "null"

\* The value it returns on a 2xx response (lines 175, 197, 217, ...).
SuccessValue(op) ==
    IF op \in {"deleteUser", "deleteSession"} THEN "true" ELSE "record"

\* The message of the Error thrown on a non-2xx response (lines 171, 193,
\* ...): the body's detail, or the operation's fixed text.  The catch block
\* passes it to console.error.
Reason(op, o) ==
    CASE o = "rejected_detail" -> "detail"
      [] o = "rejected_plain" -> "Failed to " \o op
      [] OTHER -> "fetch failed"

\* The reason a caller can read off a returned value: null and false carry
\* none.
ReasonIn(result) == IF result \in {"null", "false"} THEN "none" ELSE result

\* A gateway that skips the credential test.
IssuesRequestAlways(tok) == TRUE

\* `if (!token) return ...` (lines 162, 184, 206, 226, 248, 270): whether
\* the operation goes on to fetch.
IssuesRequest(tok) == Truthy(tok)

\* What a command's request may end in.
CommandOutcomes == { "ok", "rejected_detail", "rejected_plain", "network" }

\* An operation up to its await, or to its early return.
Command(op) ==
    /\ phase = "ready"
    /\ IF IssuesRequest(token)
         THEN /\ Len(cmdReqs) < MaxInFlight
              /\ cmdReqs' = Append(cmdReqs, [op |-> op, token |-> token])
              /\ last' = [op |-> "command", name |-> op, sent |-> TRUE,
                          authed |-> token # NullToken, result |-> "pending"]
         ELSE /\ cmdReqs' = cmdReqs
              /\ last' = [op |-> "command", name |-> op, sent |-> FALSE,
                          authed |-> token # NullToken,
                          result |-> FailureValue(op)]
    /\ UNCHANGED << phase, loading, user, token, users, sessions, ws, lsUser,
                    lsToken, sockets, effSock, dirty, loginReqs, fetchReqs,
                    opened >>

\* A gateway that writes a created user into the mirror itself.
CommandResponseOptimistic(k, o) ==
    /\ phase = "ready"
    /\ k \in 1..Len(cmdReqs)
    /\ cmdReqs' = [j \in 1..(Len(cmdReqs) - 1) |->
                     IF j < k THEN cmdReqs[j] ELSE cmdReqs[j + 1]]
    /\ last' = [op |-> "commandDone", name |-> cmdReqs[k].op, outcome |-> o,
                logged |-> IF o = "ok" THEN "none" ELSE Reason(cmdReqs[k].op, o),
                result |-> IF o = "ok" THEN SuccessValue(cmdReqs[k].op)
                           ELSE FailureValue(cmdReqs[k].op)]
    /\ users' = IF o = "ok" /\ cmdReqs[k].op = "createUser"
                  THEN Append(users, [id |-> 2, username |-> "bob"])
                  ELSE users
    /\ UNCHANGED << phase, loading, user, token, sessions, ws, lsUser,
                    lsToken, sockets, effSock, dirty, loginReqs, fetchReqs,
                    opened >>

\* An operation after its await: it returns the response's record (or
\* true), or its failure value from the catch block.  No setState is called.
CommandResponse(k, o) ==
    /\ phase = "ready"
    /\ k \in 1..Len(cmdReqs)
    /\ cmdReqs' = [j \in 1..(Len(cmdReqs) - 1) |->
                     IF j < k THEN cmdReqs[j] ELSE cmdReqs[j + 1]]
    /\ last' = [op |-> "commandDone", name |-> cmdReqs[k].op, outcome |-> o,
                logged |-> IF o = "ok" THEN "none" ELSE Reason(cmdReqs[k].op, o),
                result |-> IF o = "ok" THEN SuccessValue(cmdReqs[k].op)
                           ELSE FailureValue(cmdReqs[k].op)]
    /\ UNCHANGED << phase, loading, user, token, users, sessions, ws, lsUser,
                    lsToken, sockets, effSock, dirty, loginReqs, fetchReqs,
                    opened >>

\* ------------------------------------------------------------------ spec
\* A step of the provider during which the backend does nothing.
Idle == UNCHANGED srv

\* The environment of Spec: the notifications that touch the credential
\* (for both principals), one that extends each mirror and one with an
\* unknown discriminant; a bulk fetch that succeeds with one fixed
\* collection pair or fails.
CoreMessages ==
    { m \in Messages :
        \/ m.type \in {"user_deleted", "ping"}
        \/ m.type = "user_updated" /\ m.data.user.username = "anna"
        \/ m.type = "user_created" /\ m.data.user.id = 2
        \/ m.type = "session_created" /\ m.data.id = 1 }

CoreFetchOutcomes ==
    { o \in FetchOutcomes :
        o.kind = "ok" => (Len(o.users) = 2 /\ Len(o.sessions) = 1
                          /\ "email" \in DOMAIN o.users[1]
                          /\ o.sessions[1].id = 1) }

Next ==
    \/ Mount /\ Idle
    \/ FlushEffects /\ Idle
    \/ LoginRequest /\ Idle
    \/ \E o \in LoginOutcomes : LoginResponse(o) /\ Idle
    \/ Logout /\ Idle
    \/ \E i \in 1..MaxSockets, m \in CoreMessages : WsMessage(i, m) /\ Idle
    \/ \E i \in 1..MaxSockets : SocketOpen(i) /\ Idle
    \/ \E i \in 1..MaxSockets : SocketLost(i) /\ Idle
    \/ \E i \in 1..MaxSockets : SocketClosed(i) /\ Idle
    \/ \E o \in CoreFetchOutcomes : FetchResponse(o) /\ Idle

Spec == Init /\ [][Next]_vars

\* SpecGateway: the Command Gateway next to the operations that change the
\* credential it reads (restore, login, logout, forced logout) and the bulk
\* fetch that fills the mirrors.
GatewayMessages ==
    { m \in Messages : m.type = "user_deleted" /\ m.data.user_id = 1 }
GatewayLogins ==
    { o \in LoginOutcomes :
        \/ o.kind = "ok" /\ o.user.id = 1
        \/ o.kind = "network" }

NextGateway ==
    \/ Mount /\ Idle
    \/ FlushEffects /\ Idle
    \/ LoginRequest /\ Idle
    \/ \E o \in GatewayLogins : LoginResponse(o) /\ Idle
    \/ Logout /\ Idle
    \/ \E i \in 1..MaxSockets, m \in GatewayMessages : WsMessage(i, m) /\ Idle
    \/ \E i \in 1..MaxSockets : SocketOpen(i) /\ Idle
    \/ \E i \in 1..MaxSockets : SocketClosed(i) /\ Idle
    \/ \E o \in CoreFetchOutcomes : FetchResponse(o) /\ Idle
    \/ \E op \in CommandOps : Command(op) /\ Idle
    \/ \E k \in 1..Len(cmdReqs), o \in CommandOutcomes :
         CommandResponse(k, o) /\ Idle

SpecGateway == Init /\ [][NextGateway]_vars

\* SpecMirror: the two mirrors under every notification and every bulk-fetch
\* response, for a principal restored from storage.  The mirrors are
\* independent collections, so the environment exercises one at a time.
InitMirror ==
    /\ Init
    /\ lsUser = Stringify([id |-> 1, username |-> "ann", email |-> "a@x"])
    /\ lsToken # Absent

OneMirror(us, ss) == us = <<>> \/ ss = <<>>

NextMirror ==
    \/ Mount /\ Idle
    \/ FlushEffects /\ Idle
    \/ \E i \in 1..MaxSockets, m \in Messages :
         /\ OneMirror(UsersAfter(users, m), SessionsAfter(sessions, m))
         /\ WsMessage(i, m)
         /\ Idle
    \/ \E i \in 1..MaxSockets : SocketOpen(i) /\ Idle
    \/ \E i \in 1..MaxSockets : SocketClosed(i) /\ Idle
    \/ \E o \in FetchOutcomes :
         /\ o.kind = "ok" => OneMirror(o.users, o.sessions)
         /\ FetchResponse(o)
         /\ Idle

SpecMirror == InitMirror /\ [][NextMirror]_vars

\* SpecDecode: the socket delivers frames, decodable or not, to a provider
\* restored from storage.
DecodeMessages ==
    { m \in Messages :
        \/ m.type = "ping"
        \/ IsSessionMsg(m) /\ TargetId(m) = 1 }

Frames ==
    { InvalidJson }
    \cup { Stringify(m) : m \in DecodeMessages }
    \cup { Stringify(NoData(t)) : t \in MessageTypes \cup {"ping"} }

NextDecode ==
    \/ Mount /\ Idle
    \/ FlushEffects /\ Idle
    \/ \E i \in 1..MaxSockets, f \in Frames : WsFrame(i, f) /\ Idle
    \/ \E i \in 1..MaxSockets : SocketOpen(i) /\ Idle
    \/ \E i \in 1..MaxSockets : SocketClosed(i) /\ Idle
    \/ \E o \in CoreFetchOutcomes : FetchResponse(o) /\ Idle

SpecDecode == InitMirror /\ [][NextDecode]_vars

\* SpecSync: the provider, restored from storage, next to a backend that
\* holds the session collection.  The backend answers GET /sessions/ (line
\* 29) with the collection as it is when it handles the request, serves
\* POST /sessions/ (line 228) by storing a session under the next id, and
\* broadcasts every change, in order, to the sockets connected at that
\* moment.  Other clients create and delete sessions too.
SessionOf(k) == CHOOSE r \in SessionRecords : r.id = k

\* The collection in id order, as GET /sessions/ returns it.
Listing(S) ==
    [j \in 1..Cardinality(S) |->
        SessionOf(CHOOSE k \in S : Cardinality({ x \in S : x < k }) = j - 1)]

CreatedMsg(k) == [type |-> "session_created", data |-> SessionOf(k)]
DeletedMsg(k) == [type |-> "session_deleted", data |-> [session_id |-> k]]

\* A broadcast reaches the sockets that are open.
Broadcast(q, m) ==
    [i \in 1..MaxSockets |->
        IF sockets[i].state = "OPEN" THEN Append(q[i], m) ELSE q[i]]

\* What is queued for a socket that is no longer open is never delivered.
Connected(q) ==
    [i \in 1..MaxSockets |-> IF sockets'[i].state = "OPEN" THEN q[i] ELSE <<>>]

\* The backend reads its collection for the bulk fetch in flight.
ServeFetch ==
    /\ fetchReqs > 0
    /\ ~snap.taken
    /\ snap' = [taken |-> TRUE, ids |-> server.ids]
    /\ last' = Other
    /\ UNCHANGED << client, server, queue, created >>

\* fetchInitialData receives that answer.
SyncFetchResponse ==
    /\ snap.taken
    /\ FetchResponse([kind |-> "ok", users |-> <<>>,
                      sessions |-> Listing(snap.ids)])
    /\ snap' = NoSnap
    /\ queue' = Connected(queue)
    /\ UNCHANGED << server, created >>

\* Another client creates a session, or deletes one.
ServerCreates ==
    LET k == server.assigned + 1
    IN  /\ k \in SessionIds
        /\ server' = [ids |-> server.ids \cup {k}, assigned |-> k]
        /\ queue' = Broadcast(queue, CreatedMsg(k))
        /\ last' = Other
        /\ UNCHANGED << client, snap, created >>

ServerDeletes(k) ==
    /\ k \in server.ids
    /\ server' = [server EXCEPT !.ids = @ \ {k}]
    /\ queue' = Broadcast(queue, DeletedMsg(k))
    /\ last' = Other
    /\ UNCHANGED << client, snap, created >>

\* The backend serves the createSession request in flight.
ServeCommand ==
    LET k == server.assigned + 1
    IN  /\ cmdReqs # <<>>
        /\ created = NotCreated
        /\ k \in SessionIds
        /\ server' = [ids |-> server.ids \cup {k}, assigned |-> k]
        /\ queue' = Broadcast(queue, CreatedMsg(k))
        /\ created' = [id |-> k, returned |-> FALSE, echoed |-> FALSE]
        /\ last' = Other
        /\ UNCHANGED << client, snap >>

\* createSession is called once, and gets the backend's answer: 2xx with
\* the stored record, or a rejection if the backend stored nothing.
SyncCommand ==
    /\ created = NotCreated
    /\ Command("createSession")
    /\ Idle

SyncCommandResponse(o) ==
    /\ (o = "ok") <=> (created # NotCreated /\ ~created.returned)
    /\ CommandResponse(1, o)
    /\ created' = IF o = "ok" THEN [created EXCEPT !.returned = TRUE]
                  ELSE created
    /\ UNCHANGED << server, queue, snap >>

\* The socket hands the next queued notification to onmessage.
Deliver(i) ==
    /\ queue[i] # <<>>
    /\ WsMessage(i, Head(queue[i]))
    /\ queue' = Connected([queue EXCEPT ![i] = Tail(queue[i])])
    /\ created' = IF created # NotCreated
                      /\ Head(queue[i]) = CreatedMsg(created.id)
                    THEN [created EXCEPT !.echoed = TRUE]
                    ELSE created
    /\ UNCHANGED << server, snap >>

NextSync ==
    \/ Mount /\ Idle
    \/ FlushEffects /\ queue' = Connected(queue)
         /\ UNCHANGED << server, snap, created >>
    \/ \E i \in 1..MaxSockets :
         SocketOpen(i) /\ queue' = Connected(queue)
           /\ UNCHANGED << server, snap, created >>
    \/ ServeFetch
    \/ SyncFetchResponse
    \/ ServerCreates
    \/ \E k \in SessionIds : ServerDeletes(k)
    \/ SyncCommand
    \/ ServeCommand
    \/ \E o \in {"ok", "rejected_plain"} : SyncCommandResponse(o)
    \/ \E i \in 1..MaxSockets : Deliver(i)

SpecSync == InitMirror /\ [][NextSync]_vars

\* ================================================================ claims
\* C1: in every reachable state the principal is non-null exactly when the
\* token is non-null.
C1_PrincipalIffToken == (user # NullUser) <=> (token # NullToken)

CredentialCleared ==
    /\ user = NullUser
    /\ token = NullToken
    /\ lsUser = Absent
    /\ lsToken = Absent

MirrorsEmpty == users = <<>> /\ sessions = <<>>

\* C2: a user_deleted notification for the current principal's id leaves the
\* credential null, both mirrors empty and both storage slots removed; one
\* for any other id leaves principal, token and storage unchanged.
C2_ForcedLogout ==
    [][ (last'.op = "ws" /\ last'.msg.type = "user_deleted") =>
          IF last'.self
            THEN CredentialCleared' /\ MirrorsEmpty'
            ELSE UNCHANGED << user, token, lsUser, lsToken >> ]_vars

\* C3: login followed by logout leaves both storage slots absent, both
\* mirrors empty and the credential null, whatever they held before.
C3_LoginThenLogout ==
    (last.op = "logout" /\ last.prev = "login") =>
        CredentialCleared /\ MirrorsEmpty

C3_Witness ==
    /\ last.op = "logout"
    /\ last.prev = "login"
    /\ last.had
    /\ CredentialCleared

\* C4: a Command Gateway operation invoked with a null token returns its
\* failure value (false for the two deletes, null for the others) without
\* issuing a request, and no request in flight was started without a token.
C4_Unauthenticated ==
    /\ \A k \in 1..Len(cmdReqs) : cmdReqs[k].token # NullToken
    /\ (last.op = "command" /\ ~last.authed) =>
         /\ ~last.sent
         /\ last.result =
              IF last.name \in {"deleteUser", "deleteSession"}
                THEN "false" ELSE "null"

C4_Witness ==
    /\ last.op = "command"
    /\ ~last.authed
    /\ last.name = "deleteSession"
    /\ last.result = "false"
    /\ token = NullToken

\* C5: no Command Gateway step, whether it starts an operation or completes
\* one with success, rejection or transport failure, changes the mirrors,
\* the credential or durable storage.
C5_CommandFrame ==
    [][ last'.op \in {"command", "commandDone"} =>
          UNCHANGED << users, sessions, user, token, lsUser, lsToken >> ]_vars

C5_Witness ==
    /\ last.op = "commandDone"
    /\ last.name = "createUser"
    /\ last.outcome = "ok"
    /\ users # <<>>
    /\ token # NullToken

\* C6: user_updated for a present id replaces that entry by the payload's
\* record exactly and keeps every other entry; session_updated for a present
\* id overwrites status and updated_at of that entry, keeps its other
\* fields, and keeps every other entry.
C6_UpdateSemantics ==
    [][ (last'.op = "ws" /\ last'.hit) =>
          LET m == last'.msg IN
          /\ m.type = "user_updated" =>
               /\ Len(users') = Len(users)
               /\ \A i \in 1..Len(users) :
                    users'[i] = IF users[i].id = m.data.user_id
                                  THEN m.data.user ELSE users[i]
          /\ m.type = "session_updated" =>
               /\ Len(sessions') = Len(sessions)
               /\ \A i \in 1..Len(sessions) :
                    IF sessions[i].id = m.data.session_id
                      THEN /\ DOMAIN sessions'[i] = DOMAIN sessions[i]
                           /\ sessions'[i].status = m.data.status
                           /\ sessions'[i].updated_at = m.data.updated_at
                           /\ \A f \in DOMAIN sessions[i] \ {"status", "updated_at"} :
                                sessions'[i][f] = sessions[i][f]
                      ELSE sessions'[i] = sessions[i] ]_vars

\* A user entry that had an email was replaced by a payload without one,
\* next to an entry for another user.
C6_Witness ==
    /\ last.op = "ws"
    /\ last.msg.type = "user_updated"
    /\ last.hit
    /\ Len(users) = 2
    /\ users[1] = [id |-> 1, username |-> "anna"]
    /\ users[2].id = 2

\* C7: a 'deleted' notification for an identifier absent from its mirror
\* leaves both collections unchanged.
C7_DeleteAbsent ==
    [][ (/\ last'.op = "ws"
         /\ last'.msg.type \in {"user_deleted", "session_deleted"}
         /\ ~last'.hit) =>
          UNCHANGED << users, sessions >> ]_vars

C7_Witness ==
    /\ last.op = "ws"
    /\ last.msg.type = "session_deleted"
    /\ ~last.hit
    /\ sessions # <<>>

\* C8: 'created' for an identifier already present leaves exactly one entry
\* for it, and 'updated' for an absent identifier leaves an entry for it.
C8_Upsert ==
    (last.op = "ws") =>
        LET m == last.msg
            mirror == IF IsUserMsg(m) THEN users ELSE sessions
        IN
        /\ (m.type \in {"user_created", "session_created"} /\ last.hit) =>
              CountId(mirror, TargetId(m)) = 1
        /\ (m.type \in {"user_updated", "session_updated"} /\ ~last.hit) =>
              TargetId(m) \in Ids(mirror)

\* C9: no two entries of a mirror share an identifier.
C9_UniqueIds ==
    /\ \A id \in UserIds : CountId(users, id) <= 1
    /\ \A id \in SessionIds : CountId(sessions, id) <= 1

\* C10: at most one socket created by the provider is connecting or open.
Live == { i \in 1..MaxSockets : sockets[i].state \in {"CONNECTING", "OPEN"} }

C10_OneChannel == Cardinality(Live) <= 1

\* The channel effect re-ran: the socket it closed is still closing while
\* the one it opened is connecting.
C10_Witness ==
    \E i, j \in 1..MaxSockets :
        /\ sockets[i].state = "CLOSING"
        /\ sockets[j].state = "CONNECTING"
        /\ effSock = j

\* C11: between acquiring a credential and losing it the provider creates
\* one push-channel connection, never a second.
C11_OneChannelPerSession == opened <= 1

\* C12: losing the credential tears the channel down: right after logout,
\* and in every state with a null token whose effects have run, no socket is
\* connecting or open.
C12_LossTearsDown ==
    /\ last.op = "logout" => Live = {}
    /\ (token = NullToken /\ dirty = Clean) => Live = {}

\* The effects that follow a forced logout have just closed the open socket.
C12_Witness ==
    /\ last.op = "effects"
    /\ last.closed
    /\ token = NullToken
    /\ \E i \in 1..MaxSockets : sockets[i].state = "CLOSING"

\* C13: a frame that cannot be decoded (invalid JSON, no data payload) or
\* whose type is unknown is dropped: credential, mirrors and storage keep
\* their values, the channel stays open and the provider keeps running.
Undecodable(f) == ~WellFormed(f) \/ ~KnownType(Parse(f))

C13_UndecodableDropped ==
    [][ ( \/ last'.op = "frame" /\ Undecodable(last'.frame)
          \/ last'.op = "ws" /\ ~KnownType(last'.msg) ) =>
          /\ UNCHANGED << user, token, users, sessions, lsUser, lsToken >>
          /\ Live' = Live
          /\ phase' = "ready" ]_vars

\* C14: restore completes for every content of the two slots: the provider
\* keeps running with loading false, and holds the stored pair exactly when
\* both slots are present and the principal slot parses.
C14_RestoreCompletes ==
    last.op = "restore" =>
        /\ phase = "ready"
        /\ loading = FALSE
        /\ (token # NullToken) <=>
             (lsUser # Absent /\ lsToken # Absent /\ Parses(lsUser))
        /\ token # NullToken => (user = Parse(lsUser) /\ Slot(token) = lsToken)

\* C16: a command whose request is rejected or fails in transport returns
\* its failure value to the caller, and on a rejection the returned value
\* carries the reason: the body's detail or the generic text.
C16_FailureCarriesReason ==
    (last.op = "commandDone" /\ last.outcome # "ok") =>
        /\ last.result = FailureValue(last.name)
        /\ last.outcome \in {"rejected_detail", "rejected_plain"} =>
             ReasonIn(last.result) = last.logged

\* C18: once the channel was closed by the remote end or a transport error
\* and no effect is pending, a step that leaves the credential as it is
\* (no login, logout or change of principal or token) opens no channel and
\* schedules none.
C18_NoReconnect ==
    [][ (Lost /\ dirty = Clean /\ last'.op # "login"
         /\ UNCHANGED << user, token >>) =>
          (Live' = {} /\ dirty' = Clean /\ Lost') ]_vars

\* The channel of a held credential was lost, and the bulk fetch has since
\* been answered.
C18_Witness ==
    /\ Lost
    /\ dirty = Clean
    /\ token # NullToken
    /\ fetchReqs = 0
    /\ users # <<>>

\* C19: whenever the token is null both mirrors are empty; a bulk-fetch
\* response that arrives after the credential was lost fills neither.
C19_NoTokenNoMirrors == token = NullToken => (users = <<>> /\ sessions = <<>>)

\* C20: once restore has run, a restart followed by restore would yield the
\* principal and token held now: the slots hold the serialization of the
\* current principal and the current token, or nothing when none is held.
RestoredPair ==
    IF lsUser # Absent /\ lsToken # Absent /\ Parses(lsUser)
      THEN << Parse(lsUser), lsToken[2] >>
      ELSE << NullUser, NullToken >>

C20_StorageAgrees == phase = "ready" => RestoredPair = << user, token >>

\* C15: from the moment createSession has returned the created record until
\* the session_created notification for its id is applied, the session
\* mirror holds no entry with that id.
C15_AbsentUntilEchoed ==
    (created.returned /\ ~created.echoed) => created.id \notin Ids(sessions)

\* C15, amended: returning from createSession leaves the session mirror as
\* it is; the created id enters the mirror only when its session_created
\* notification is applied or a bulk-fetch response is received; and once
\* that notification is applied the mirror holds an entry with the id.
C15_OnlyEchoOrFetchAdds ==
    [][ /\ last'.op = "commandDone" => sessions' = sessions
        /\ ( /\ created # NotCreated
             /\ created.id \notin Ids(sessions)
             /\ created.id \in Ids(sessions') ) =>
               \/ ~created.echoed /\ created'.echoed
               \/ fetchReqs' < fetchReqs
        /\ (~created.echoed /\ created'.echoed) =>
               created.id \in Ids(sessions') ]_vars

\* createSession has returned, and the notification applied after that put
\* the new id into a mirror that did not hold it.
C15_Witness ==
    /\ created.returned
    /\ created.echoed
    /\ last.op = "ws"
    /\ last.msg = CreatedMsg(created.id)
    /\ ~last.hit
    /\ created.id \in Ids(sessions)

\* C17: in a state where nothing is in flight (the credential is held, the
\* channel is open with nothing queued, the bulk fetch is answered, no
\* command or effect is pending) only a change at the backend can still
\* change the mirror, so a mirror that is eventually consistent holds
\* exactly the backend's collection there, each id once.
Settled ==
    /\ phase = "ready"
    /\ token # NullToken
    /\ dirty = Clean
    /\ fetchReqs = 0
    /\ cmdReqs = <<>>
    /\ effSock # NoSocket
    /\ sockets[effSock].state = "OPEN"
    /\ queue[effSock] = <<>>

C17_SettledConsistent ==
    Settled =>
        /\ Ids(sessions) = server.ids
        /\ \A k \in SessionIds : CountId(sessions, k) <= 1

====
